---- MODULE Spec2Model ----
(***************************************************************************)
(* Model of src/pytest/node_plugin.py: the `node` pytest fixture, the      *)
(* Azure helper functions it calls (check_az_cli, create_boot_storage,     *)
(* deploy_vm, delete_vm) and the Node connection class.                    *)
(*                                                                         *)
(* A Python dict is a record (or a function with a string domain); a dict  *)
(* of keyword arguments, whose iteration order is its declaration order,   *)
(* is a sequence of <<name, value>> pairs with distinct names.  Python's   *)
(* None is the empty sequence <<>> and a present value v is <<v>>.         *)
(***************************************************************************)
EXTENDS Integers, Sequences, FiniteSets, TLC

VARIABLES
    keep_vms,       \* the run's --keep-vms option
    cache,          \* request.config.cache: key -> <<>> (None) or <<descriptor>>
    rgExists,       \* names whose resource group "<name>-rg" exists in the cloud
    deletedGroups,  \* names whose resource group a delete_vm call has removed
    bootGroup,      \* the shared resource group "pytest-lisa" exists
    bootAccount,    \* the storage account "pytestbootdiag" exists
    uuidCount,      \* number of uuid4() names generated so far
    config,         \* the module-level `config` dict
    pc,             \* position of the fixture generator
    inv,            \* locals of the current fixture invocation
    calls,          \* calls issued by the current fixture invocation, in order
    localRuns,      \* environments received by commands run with Node.local
    remoteRuns,     \* environments received by commands run with Node.run
    keyPair,        \* two deploy markers and the cache keys derived from them
    call,           \* the last direct call of a cloud helper and what it did
    retry           \* the running Node.get_boot_diagnostics call

\* the cache and the cloud, which outlive a fixture invocation
worldVars == <<cache, rgExists, deletedGroups, bootGroup, bootAccount, uuidCount>>
\* the fixture generator and the Node it yields
fixtureVars == <<config, pc, inv, calls>>
nodeVars == <<localRuns, remoteRuns>>
\* the helper call and the retried call, used outside the fixture
auxVars == <<call, retry>>

vars == <<keep_vms, cache, rgExists, deletedGroups, bootGroup, bootAccount,
          uuidCount, config, pc, inv, calls, localRuns, remoteRuns, keyPair,
          call, retry>>

(***************************************************************************)
(* Bounds.                                                                 *)
(***************************************************************************)
MaxParams == 1      \* keyword arguments declared on one deploy marker
MaxUuid == 2        \* deployment names generated in one behaviour
MaxKeyParams == 2   \* keyword arguments of a marker whose key is derived alone
MaxFetchSecs == 2   \* seconds one boot-log fetch takes, at most
MaxAttempts == 8    \* fetch attempts of one get_boot_diagnostics call

\* line 132: stop_after_delay(60), in seconds
RetryDeadline == 60

ParamNames == {"vm_image", "vm_size"}
ParamValues == {"", "a"}
KeyValues == {"", "a", "b"}
ConnectHosts == {"203.0.113.5"}

None == <<>>
Some(v) == <<v>>
EmptyDict == [k \in {} |-> ""]

(***************************************************************************)
(* Python helpers.                                                         *)
(***************************************************************************)
\* str.join
RECURSIVE Join(_, _)
Join(sep, s) ==
    IF Len(s) = 0 THEN ""
    ELSE IF Len(s) = 1 THEN s[1]
    ELSE s[1] \o sep \o Join(sep, Tail(s))

\* filter(None, seq) over strings: drops the empty strings, keeps the order
RECURSIVE FilterNone(_)
FilterNone(s) ==
    IF Len(s) = 0 THEN <<>>
    ELSE IF s[1] = "" THEN FilterNone(Tail(s))
    ELSE <<s[1]>> \o FilterNone(Tail(s))

\* dict.values() of a keyword dict, in declaration order
KwValues(kwargs) == [i \in 1..Len(kwargs) |-> kwargs[i][2]]

\* truth value of `data` (None or a dict)
Truthy(d) == d # None /\ DOMAIN d[1] # {}

\* line 171: the cache key of a deploy marker
CacheKey(kwargs) == Join("/", <<"node">> \o FilterNone(KwValues(kwargs)))

\* request.config.cache.get(key, None)
CacheGet(c, key) == IF key \in DOMAIN c THEN c[key] ELSE None

\* request.config.cache.set(key, value)
CacheSet_Dropped(c, key, value) == c

CacheSet(c, key, value) ==
    [k \in DOMAIN c \cup {key} |-> IF k = key THEN value ELSE c[k]]

(***************************************************************************)
(* Inputs.                                                                 *)
(***************************************************************************)
\* the keyword dicts of at most n entries with the given values
KwargsOf(values, n) ==
    {s \in UNION {[1..m -> ParamNames \X values] : m \in 0..n} :
        \A i, j \in 1..Len(s) : i # j => s[i][1] # s[j][1]}

Kwargs == KwargsOf(ParamValues, MaxParams)

\* markers of a test: each of `deploy` and `connect` is absent or present
Intents ==
    [deploy : {None} \cup {Some(k) : k \in Kwargs},
     connect : {None} \cup {Some(h) : h \in ConnectHosts}]

(***************************************************************************)
(* Cloud helpers.  Every helper returns the commands it issued through     *)
(* local.run, the exception it raised ("" when it returned) and the cloud  *)
(* state it leaves.  local.run raises UnexpectedExit on a non-zero exit    *)
(* unless warn=True is passed.                                             *)
(***************************************************************************)
\* state of the operator's `az` CLI when a command is run
AzEnv == {"ok", "not_installed", "not_logged_in", "no_default"}

\* the cloud command that exits non-zero, if it is issued
FailPoints == {"none", "boot group create", "storage account create",
               "group create", "vm create"}

Cmd(c) == <<"local.run", c>>

\* keyword argument `n` of a call, or the parameter's default
KwGet(kwargs, n, default) ==
    IF \E i \in 1..Len(kwargs) : kwargs[i][1] = n
    THEN LET i == CHOOSE i \in 1..Len(kwargs) : kwargs[i][1] = n IN kwargs[i][2]
    ELSE default

check_az_cli(az) ==
    IF az = "not_installed"
    THEN [error |-> "AssertionError: Please install the az CLI!",
          cmds |-> <<Cmd("az --version")>>]
    ELSE IF az = "not_logged_in"
    THEN [error |-> "UnexpectedExit: az account show",
          cmds |-> <<Cmd("az --version"), Cmd("az account show")>>]
    ELSE IF az = "no_default"
    THEN [error |-> "AssertionError: Please az account set -s <subscription>!",
          cmds |-> <<Cmd("az --version"), Cmd("az account show")>>]
    ELSE [error |-> "",
          cmds |-> <<Cmd("az --version"), Cmd("az account show")>>]

create_boot_storage_AlwaysCreate(location, bg, ba, fail) ==
    LET exists == <<Cmd("az group exists -n pytest-lisa")>>
        mkGroup == Cmd("az group create -n pytest-lisa --location " \o location)
        show == Cmd("az storage account show -g pytest-lisa -n pytestbootdiag")
        mkAcct == Cmd("az storage account create -g pytest-lisa -n pytestbootdiag")
        c1 == exists \o <<mkGroup>>
        c2 == c1 \o <<show, mkAcct>>
    IN  IF fail = "boot group create"
        THEN [error |-> "UnexpectedExit: az group create", cmds |-> c1,
              account |-> "", bootGroup |-> bg, bootAccount |-> ba]
        ELSE IF fail = "storage account create"
        THEN [error |-> "UnexpectedExit: az storage account create", cmds |-> c2,
              account |-> "", bootGroup |-> TRUE, bootAccount |-> ba]
        ELSE [error |-> "", cmds |-> c2, account |-> "pytestbootdiag",
              bootGroup |-> TRUE, bootAccount |-> TRUE]

create_boot_storage(location, bg, ba, fail) ==
    LET exists == <<Cmd("az group exists -n pytest-lisa")>>
        mkGroup == Cmd("az group create -n pytest-lisa --location " \o location)
        show == Cmd("az storage account show -g pytest-lisa -n pytestbootdiag")
        mkAcct == Cmd("az storage account create -g pytest-lisa -n pytestbootdiag")
        c1 == IF bg THEN exists ELSE exists \o <<mkGroup>>
        c2 == IF ba THEN c1 \o <<show>> ELSE c1 \o <<show, mkAcct>>
    IN  IF ~bg /\ fail = "boot group create"
        THEN [error |-> "UnexpectedExit: az group create", cmds |-> c1,
              account |-> "", bootGroup |-> bg, bootAccount |-> ba]
        ELSE IF ~ba /\ fail = "storage account create"
        THEN [error |-> "UnexpectedExit: az storage account create", cmds |-> c2,
              account |-> "", bootGroup |-> TRUE, bootAccount |-> ba]
        ELSE [error |-> "", cmds |-> c2, account |-> "pytestbootdiag",
              bootGroup |-> TRUE, bootAccount |-> TRUE]

\* the public IP address Azure assigns to the VM of deployment `name`
PublicIp(name) == "10.0.0." \o name

deploy_vm_KeepGoing(name, kwargs, az, fail, rg, bg, ba) ==
    LET location == KwGet(kwargs, "location", "westus2")
        vm_image == KwGet(kwargs, "vm_image", "UbuntuLTS")
        vm_size == KwGet(kwargs, "vm_size", "Standard_DS1_v2")
        networking == KwGet(kwargs, "networking", "")
        chk == check_az_cli(az)
        boot == create_boot_storage(location, bg, ba, fail)
        mkRg == Cmd("az group create -n " \o name \o "-rg --location " \o location)
        mkVm == Cmd("az vm create -g " \o name \o "-rg -n " \o name
                    \o " --image " \o vm_image \o " --size " \o vm_size
                    \o " --boot-diagnostics-storage pytestbootdiag"
                    \o " --generate-ssh-keys"
                    \o (IF networking = "SRIOV"
                        THEN " --accelerated-networking true" ELSE ""))
        host == PublicIp(name)
    IN  IF chk.error # ""
        THEN [error |-> chk.error, cmds |-> chk.cmds, host |-> "", data |-> EmptyDict,
              rgExists |-> rg, bootGroup |-> bg, bootAccount |-> ba]
        ELSE IF boot.error # ""
        THEN [error |-> boot.error, cmds |-> chk.cmds \o boot.cmds,
              host |-> "", data |-> EmptyDict, rgExists |-> rg,
              bootGroup |-> boot.bootGroup, bootAccount |-> boot.bootAccount]
        ELSE IF fail = "group create"
        THEN [error |-> "UnexpectedExit: az vm create",
              cmds |-> chk.cmds \o boot.cmds \o <<mkRg, mkVm>>,
              host |-> "", data |-> EmptyDict, rgExists |-> rg,
              bootGroup |-> TRUE, bootAccount |-> TRUE]
        ELSE IF fail = "vm create"
        THEN [error |-> "UnexpectedExit: az vm create",
              cmds |-> chk.cmds \o boot.cmds \o <<mkRg, mkVm>>,
              host |-> "", data |-> EmptyDict, rgExists |-> rg \cup {name},
              bootGroup |-> TRUE, bootAccount |-> TRUE]
        ELSE [error |-> "", cmds |-> chk.cmds \o boot.cmds \o <<mkRg, mkVm>>,
              host |-> host, data |-> [publicIpAddress |-> host],
              rgExists |-> rg \cup {name},
              bootGroup |-> TRUE, bootAccount |-> TRUE]

deploy_vm(name, kwargs, az, fail, rg, bg, ba) ==
    LET location == KwGet(kwargs, "location", "westus2")
        vm_image == KwGet(kwargs, "vm_image", "UbuntuLTS")
        vm_size == KwGet(kwargs, "vm_size", "Standard_DS1_v2")
        networking == KwGet(kwargs, "networking", "")
        chk == check_az_cli(az)
        boot == create_boot_storage(location, bg, ba, fail)
        mkRg == Cmd("az group create -n " \o name \o "-rg --location " \o location)
        mkVm == Cmd("az vm create -g " \o name \o "-rg -n " \o name
                    \o " --image " \o vm_image \o " --size " \o vm_size
                    \o " --boot-diagnostics-storage " \o boot.account
                    \o " --generate-ssh-keys"
                    \o (IF networking = "SRIOV"
                        THEN " --accelerated-networking true" ELSE ""))
        host == PublicIp(name)
    IN  IF chk.error # ""
        THEN [error |-> chk.error, cmds |-> chk.cmds, host |-> "", data |-> EmptyDict,
              rgExists |-> rg, bootGroup |-> bg, bootAccount |-> ba]
        ELSE IF boot.error # ""
        THEN [error |-> boot.error, cmds |-> chk.cmds \o boot.cmds,
              host |-> "", data |-> EmptyDict, rgExists |-> rg,
              bootGroup |-> boot.bootGroup, bootAccount |-> boot.bootAccount]
        ELSE IF fail = "group create"
        THEN [error |-> "UnexpectedExit: az group create",
              cmds |-> chk.cmds \o boot.cmds \o <<mkRg>>,
              host |-> "", data |-> EmptyDict, rgExists |-> rg,
              bootGroup |-> TRUE, bootAccount |-> TRUE]
        ELSE IF fail = "vm create"
        THEN [error |-> "UnexpectedExit: az vm create",
              cmds |-> chk.cmds \o boot.cmds \o <<mkRg, mkVm>>,
              host |-> "", data |-> EmptyDict, rgExists |-> rg \cup {name},
              bootGroup |-> TRUE, bootAccount |-> TRUE]
        ELSE [error |-> "", cmds |-> chk.cmds \o boot.cmds \o <<mkRg, mkVm>>,
              host |-> host, data |-> [publicIpAddress |-> host],
              rgExists |-> rg \cup {name},
              bootGroup |-> TRUE, bootAccount |-> TRUE]

\* outcome of `az group delete -n <name>-rg --yes` for a group that exists:
\* it succeeds, it exits non-zero leaving the group, or it outlives the
\* configured timeout and is reported as failed while the deletion it
\* started completes in the cloud
DeleteOutcomes == {"ok", "failed", "timeout"}

delete_vm(name, outcome, rg) ==
    LET cmd == Cmd("az group delete -n " \o name \o "-rg --yes") IN
    IF name \notin rg
    THEN [error |-> "UnexpectedExit: az group delete", cmds |-> <<cmd>>,
          rgExists |-> rg, deleted |-> {}]
    ELSE IF outcome = "ok"
    THEN [error |-> "", cmds |-> <<cmd>>,
          rgExists |-> rg \ {name}, deleted |-> {name}]
    ELSE IF outcome = "timeout"
    THEN [error |-> "CommandTimedOut: az group delete", cmds |-> <<cmd>>,
          rgExists |-> rg \ {name}, deleted |-> {name}]
    ELSE [error |-> "UnexpectedExit: az group delete", cmds |-> <<cmd>>,
          rgExists |-> rg, deleted |-> {}]

(***************************************************************************)
(* Configuration and the Node class.  An environment is a set of           *)
(* <<variable, value>> pairs.                                              *)
(***************************************************************************)
\* dict.update: the entries of b over those of a
Merge(a, b) ==
    [k \in DOMAIN a \cup DOMAIN b |-> IF k \in DOMAIN b THEN b[k] ELSE a[k]]

\* lines 27-37: the module-level `config` as written in the source
DefaultConfig == [run |-> [echo |-> TRUE, in_stream |-> FALSE, timeout |-> 300]]

\* lines 197-200: the PATH override of the remote session
RemoteEnv ==
    {<<"PATH", "/sbin:/usr/sbin:/usr/local/sbin:/bin:/usr/bin:/usr/local/bin">>}

\* os.environ of the process running the tests
OsEnviron == {<<"HOME", "/home/tester">>, <<"PATH", "/usr/bin">>}

\* the run options Fabric's Config starts from, before the overrides
FabricRunDefaults == [replace_env |-> TRUE, env |-> {}]

\* line 201: fabric.Config(overrides=ssh_config)
FabricConfig(overrides) == [run |-> Merge(FabricRunDefaults, overrides.run)]

\* a run option: the keyword argument when given, else the configured value
RunOpt(cfg, kwargs, opt) ==
    IF opt \in DOMAIN kwargs THEN kwargs[opt] ELSE cfg.run[opt]

\* the environment a command is started with
GenerateEnv(env, replace_env) ==
    IF replace_env THEN env
    ELSE {p \in OsEnviron : \A q \in env : q[1] # p[1]} \cup env

\* lines 128-130: Node.local runs Context.run with replace_env=False, env={}
NodeLocalKwargs_NoEnv == [replace_env |-> FALSE]

NodeLocalKwargs == [replace_env |-> FALSE, env |-> {}]

NodeLocal(cfg) ==
    LET env == RunOpt(cfg, NodeLocalKwargs, "env")
        replace_env == RunOpt(cfg, NodeLocalKwargs, "replace_env")
    IN  [overrides |-> env, env |-> GenerateEnv(env, replace_env)]

\* Connection.run on the Node: the configured environment, sent inline
NodeRun(cfg) ==
    LET env == RunOpt(cfg, EmptyDict, "env")
        replace_env == RunOpt(cfg, EmptyDict, "replace_env")
    IN  [overrides |-> env, env |-> GenerateEnv(env, replace_env)]

(***************************************************************************)
(* The node fixture.                                                       *)
(***************************************************************************)
NewName(n) == "pytest-" \o ToString(n)

\* the state the fixture reads and writes outside its own locals
World ==
    [cache |-> cache, rgExists |-> rgExists, bootGroup |-> bootGroup,
     bootAccount |-> bootAccount, uuidCount |-> uuidCount]

NoInvocation ==
    [intent |-> [deploy |-> None, connect |-> None], path |-> "",
     keyBound |-> FALSE, key |-> "", name |-> "", host |-> "",
     data |-> EmptyDict, hit |-> FALSE, error |-> "", session |-> "none",
     nodeConfig |-> FabricConfig(DefaultConfig), outcome |-> "",
     teardownError |-> ""]

\* lines 174-175, 183-184: the cached descriptor is reused
CacheHit_FreshName(key, cached, w) ==
    [path |-> "deploy", keyBound |-> TRUE, key |-> key,
     name |-> NewName(w.uuidCount + 1), host |-> cached.host,
     data |-> cached, hit |-> TRUE, error |-> "",
     calls |-> <<<<"cache.get", key>>>>, world |-> w]

CacheHit(key, cached, w) ==
    [path |-> "deploy", keyBound |-> TRUE, key |-> key,
     name |-> cached.name, host |-> cached.host,
     data |-> cached, hit |-> TRUE, error |-> "",
     calls |-> <<<<"cache.get", key>>>>, world |-> w]

\* lines 176-184: a new VM is deployed under a fresh name and cached
CacheMiss(key, kwargs, az, fail, w) ==
    LET get == <<<<"cache.get", key>>>>
        name == NewName(w.uuidCount + 1)
        F(d) ==
            IF d.error # ""
            THEN [path |-> "deploy", keyBound |-> TRUE, key |-> key,
                  name |-> name, host |-> "", data |-> EmptyDict,
                  hit |-> FALSE, error |-> d.error,
                  calls |-> get \o <<<<"deploy_vm", name>>>> \o d.cmds,
                  world |-> [cache |-> w.cache, rgExists |-> d.rgExists,
                             bootGroup |-> d.bootGroup,
                             bootAccount |-> d.bootAccount,
                             uuidCount |-> w.uuidCount + 1]]
            ELSE LET data == Merge(d.data, [name |-> name, host |-> d.host]) IN
                 [path |-> "deploy", keyBound |-> TRUE, key |-> key,
                  name |-> data.name, host |-> data.host, data |-> data,
                  hit |-> FALSE, error |-> "",
                  calls |-> get \o <<<<"deploy_vm", name>>>> \o d.cmds
                            \o <<<<"cache.set", key>>>>,
                  world |-> [cache |-> CacheSet(w.cache, key, Some(data)),
                             rgExists |-> d.rgExists,
                             bootGroup |-> d.bootGroup,
                             bootAccount |-> d.bootAccount,
                             uuidCount |-> w.uuidCount + 1]]
    IN  F(deploy_vm(name, kwargs, az, fail, w.rgExists, w.bootGroup,
                    w.bootAccount))

\* lines 169-184: the provision-or-reuse branch
DeployBranch(intent, az, fail, w) ==
    LET kwargs == intent.deploy[1]
        key == CacheKey(kwargs)
        cached == CacheGet(w.cache, key)
    IN  IF Truthy(cached)
        THEN CacheHit(key, cached[1], w)
        ELSE CacheMiss(key, kwargs, az, fail, w)

\* lines 185-188: the connect-only branch
ConnectBranch_BareName(intent, w) ==
    LET host == intent.connect[1] IN
    [path |-> "connect", keyBound |-> FALSE, key |-> "",
     name |-> host, host |-> host, data |-> EmptyDict,
     hit |-> FALSE, error |-> "", calls |-> <<>>, world |-> w]

ConnectBranch(intent, w) ==
    LET host == intent.connect[1] IN
    [path |-> "connect", keyBound |-> FALSE, key |-> "",
     name |-> "pre-deployed:" \o host, host |-> host, data |-> EmptyDict,
     hit |-> FALSE, error |-> "", calls |-> <<>>, world |-> w]

\* lines 189-193: the local branch
LocalBranch_Loopback(w) ==
    [path |-> "local", keyBound |-> FALSE, key |-> "",
     name |-> "localhost", host |-> "127.0.0.1", data |-> EmptyDict,
     hit |-> FALSE, error |-> "", calls |-> <<>>, world |-> w]

LocalBranch(w) ==
    [path |-> "local", keyBound |-> FALSE, key |-> "",
     name |-> "localhost", host |-> "localhost", data |-> EmptyDict,
     hit |-> FALSE, error |-> "", calls |-> <<>>, world |-> w]

\* lines 169-193: the branch the markers select
SelectBranch_TwoIfs(intent, az, fail, w) ==
    IF intent.connect # None
    THEN IF intent.deploy # None
         THEN [DeployBranch(intent, az, fail, w) EXCEPT
                 !.name = "pre-deployed:" \o intent.connect[1],
                 !.host = intent.connect[1]]
         ELSE ConnectBranch(intent, w)
    ELSE IF intent.deploy # None
         THEN [DeployBranch(intent, az, fail, w) EXCEPT
                 !.name = "localhost", !.host = "localhost"]
         ELSE LocalBranch(w)

SelectBranch(intent, az, fail, w) ==
    IF intent.deploy # None THEN DeployBranch(intent, az, fail, w)
    ELSE IF intent.connect # None THEN ConnectBranch(intent, w)
    ELSE LocalBranch(w)

\* lines 196-200: ssh_config = config.copy() is a shallow copy, so the
\* assignment to ssh_config["run"]["env"] writes the dict config["run"] too
SshConfig(cfg) == [run |-> Merge(cfg.run, [env |-> RemoteEnv])]

\* lines 160-205: the fixture from its call to its yield (or to the
\* exception that ends it): the generator's position, its locals, the calls
\* it issued and the state it leaves
SetupResult(intent, az, fail, w, cfg) ==
    LET F(b) ==
        IF b.error # ""
        THEN [pc |-> "finished", config |-> cfg, calls |-> b.calls,
              world |-> b.world,
              inv |-> [NoInvocation EXCEPT
                         !.intent = intent, !.path = b.path,
                         !.keyBound = b.keyBound, !.key = b.key,
                         !.name = b.name, !.error = b.error]]
        ELSE [pc |-> "yielded", config |-> SshConfig(cfg),
              calls |-> b.calls \o <<<<"Node.__enter__", b.host>>>>,
              world |-> b.world,
              inv |-> [NoInvocation EXCEPT
                         !.intent = intent, !.path = b.path,
                         !.keyBound = b.keyBound, !.key = b.key,
                         !.name = b.name, !.host = b.host,
                         !.data = b.data, !.hit = b.hit,
                         !.session = "open",
                         !.nodeConfig = FabricConfig(SshConfig(cfg))]]
    IN  F(SelectBranch(intent, az, fail, w))

\* inputs the selected branch does not read are fixed
SetupInputs(intent, az, fail, w) ==
    /\ (az # "ok" \/ intent.deploy = None) => fail = "none"
    /\ intent.deploy = None => az = "ok"
    /\ (intent.deploy # None
        /\ Truthy(CacheGet(w.cache, CacheKey(intent.deploy[1]))))
            => az = "ok" /\ fail = "none"

NodeSetup(intent, az, fail) ==
    /\ pc = "idle"
    /\ SetupInputs(intent, az, fail, World)
    /\ \E r \in {SetupResult(intent, az, fail, World, config)} :
       /\ r.world.uuidCount <= MaxUuid
       /\ pc' = r.pc
       /\ config' = r.config
       /\ calls' = r.calls
       /\ inv' = r.inv
       /\ cache' = r.world.cache
       /\ rgExists' = r.world.rgExists
       /\ bootGroup' = r.world.bootGroup
       /\ bootAccount' = r.world.bootAccount
       /\ uuidCount' = r.world.uuidCount
    /\ UNCHANGED <<keep_vms, deletedGroups, nodeVars, keyPair, auxVars>>

\* the test runs a command on the machine hosting the tests
RunLocal ==
    /\ pc = "yielded"
    /\ localRuns' = localRuns \cup {NodeLocal(inv.nodeConfig)}
    /\ UNCHANGED <<keep_vms, worldVars, fixtureVars, remoteRuns, keyPair, auxVars>>

\* the test runs a command on the connected host
RunRemote ==
    /\ pc = "yielded"
    /\ remoteRuns' = remoteRuns \cup {NodeRun(inv.nodeConfig)}
    /\ UNCHANGED <<keep_vms, worldVars, fixtureVars, localRuns, keyPair, auxVars>>

\* the test function returns or raises; pytest then resumes the generator.
\* The commands of the test are tracked while it runs.
TestEnd(outcome) ==
    /\ pc = "yielded"
    /\ pc' = "teardown"
    /\ inv' = [inv EXCEPT !.outcome = outcome]
    /\ localRuns' = {}
    /\ remoteRuns' = {}
    /\ UNCHANGED <<keep_vms, worldVars, config, calls, keyPair, auxVars>>

\* line 208: `not keep_vms and key`, where `key` is a local that only the
\* deploy branch assigns: the resources are deleted, nothing is done, or
\* reading `key` raises UnboundLocalError
CleanUp_IgnoreKeep(i, keep) ==
    IF ~i.keyBound THEN "unbound"
    ELSE IF i.key = "" THEN "skip"
    ELSE "delete"

CleanUp(i, keep) ==
    IF keep THEN "skip"
    ELSE IF ~i.keyBound THEN "unbound"
    ELSE IF i.key = "" THEN "skip"
    ELSE "delete"

\* lines 202-211: the end of the with block and the clean-up; `error` is
\* the exception the clean-up raised, "" when it returned
TeardownResult_DeleteFirst(i, keep, outcome, w) ==
    LET close == <<<<"Node.__exit__", i.host>>>>
        same == [error |-> "", calls |-> close, cache |-> w.cache,
                 rgExists |-> w.rgExists, deleted |-> {}]
        F(d) ==
            [error |-> d.error,
             calls |-> <<<<"cache.set", i.key>>, <<"delete_vm", i.name>>>>
                       \o d.cmds \o close,
             cache |-> CacheSet(w.cache, i.key, None),
             rgExists |-> d.rgExists, deleted |-> d.deleted]
    IN  IF keep \/ ~i.keyBound \/ i.key = "" THEN same
        ELSE F(delete_vm(i.name, outcome, w.rgExists))

TeardownResult(i, keep, outcome, w) ==
    LET close == <<<<"Node.__exit__", i.host>>>>
        same == [error |-> "", calls |-> close, cache |-> w.cache,
                 rgExists |-> w.rgExists, deleted |-> {}]
        F(d) ==
            IF d.error # ""
            THEN [error |-> d.error,
                  calls |-> close \o <<<<"delete_vm", i.name>>>> \o d.cmds,
                  cache |-> w.cache, rgExists |-> d.rgExists,
                  deleted |-> d.deleted]
            ELSE [error |-> "",
                  calls |-> close \o <<<<"delete_vm", i.name>>>> \o d.cmds
                            \o <<<<"cache.set", i.key>>>>,
                  cache |-> CacheSet(w.cache, i.key, None),
                  rgExists |-> d.rgExists, deleted |-> d.deleted]
    IN  IF CleanUp(i, keep) = "skip" THEN same
        ELSE IF CleanUp(i, keep) = "unbound"
        THEN [same EXCEPT !.error = "UnboundLocalError: key"]
        ELSE F(delete_vm(i.name, outcome, w.rgExists))

NodeTeardown_LeakOnFailure(outcome) ==
    /\ pc = "teardown"
    /\ pc' = "finished"
    /\ \E r \in {TeardownResult(inv, keep_vms, outcome, World)} :
       /\ inv' = [inv EXCEPT
                    !.session = IF inv.outcome = "failed" \/ r.error # ""
                                THEN "open" ELSE "closed",
                    !.teardownError = r.error]
       /\ calls' = calls \o r.calls
       /\ cache' = r.cache
       /\ rgExists' = r.rgExists
       /\ deletedGroups' = deletedGroups \cup r.deleted
    /\ UNCHANGED <<keep_vms, bootGroup, bootAccount, uuidCount, config,
                   nodeVars, keyPair, auxVars>>

NodeTeardown(outcome) ==
    /\ pc = "teardown"
    /\ pc' = "finished"
    /\ \E r \in {TeardownResult(inv, keep_vms, outcome, World)} :
       /\ inv' = [inv EXCEPT !.session = "closed", !.teardownError = r.error]
       /\ calls' = calls \o r.calls
       /\ cache' = r.cache
       /\ rgExists' = r.rgExists
       /\ deletedGroups' = deletedGroups \cup r.deleted
    /\ UNCHANGED <<keep_vms, bootGroup, bootAccount, uuidCount, config,
                   nodeVars, keyPair, auxVars>>

\* the generator is exhausted and its frame, with its locals, is discarded
Finalize ==
    /\ pc = "finished"
    /\ pc' = "idle"
    /\ inv' = NoInvocation
    /\ calls' = <<>>
    /\ UNCHANGED <<keep_vms, worldVars, config, nodeVars, keyPair, auxVars>>

\* a new pytest run is started with the other value of --keep-vms
NewRun ==
    /\ pc = "idle"
    /\ keep_vms' = ~keep_vms
    /\ UNCHANGED <<worldVars, fixtureVars, nodeVars, keyPair, auxVars>>

NoKeys == [a |-> <<>>, b |-> <<>>, keyA |-> "", keyB |-> ""]

NoCall == [fn |-> "", args |-> <<>>, error |-> "", result |-> "", cmds |-> <<>>]

NoRetry ==
    [status |-> "idle", first |-> 0, attempt |-> 0, now |-> 0, elapsed |-> 0,
     wait |-> 0, outcome |-> "", result |-> "", error |-> ""]

Init ==
    /\ keep_vms \in BOOLEAN
    /\ cache = EmptyDict
    /\ rgExists = {}
    /\ deletedGroups = {}
    /\ bootGroup \in BOOLEAN
    /\ bootAccount \in BOOLEAN
    /\ bootAccount => bootGroup
    /\ uuidCount = 0
    /\ config = DefaultConfig
    /\ pc = "idle"
    /\ inv = NoInvocation
    /\ calls = <<>>
    /\ localRuns = {}
    /\ remoteRuns = {}
    /\ keyPair = NoKeys
    /\ call = NoCall
    /\ retry = NoRetry

Next ==
    \/ \E intent \in Intents, az \in AzEnv, fail \in FailPoints :
          NodeSetup(intent, az, fail)
    \/ RunLocal
    \/ RunRemote
    \/ \E outcome \in {"passed", "failed"} : TestEnd(outcome)
    \/ \E outcome \in DeleteOutcomes : NodeTeardown(outcome)
    \/ Finalize
    \/ NewRun

Spec == Init /\ [][Next]_vars

(***************************************************************************)
(* The cache key alone: line 171 applied to two deploy markers.            *)
(***************************************************************************)
DeriveKeys(a, b) ==
    /\ keyPair = NoKeys
    /\ keyPair' = [a |-> a, b |-> b, keyA |-> CacheKey(a), keyB |-> CacheKey(b)]
    /\ UNCHANGED <<keep_vms, worldVars, fixtureVars, nodeVars, auxVars>>

KeyNext ==
    \E a, b \in KwargsOf(KeyValues, MaxKeyParams) : DeriveKeys(a, b)

KeySpec == Init /\ [][KeyNext]_vars

(***************************************************************************)
(* Node.get_boot_diagnostics, lines 132-137: the fetch is retried by       *)
(* @retry(wait=wait_exponential(), stop=stop_after_delay(60)).  Time is in *)
(* whole seconds since the first attempt began.                            *)
(***************************************************************************)
\* wait_exponential(): the sleep after failed attempt number n doubles with
\* n; the first sleep is 1 s or 2 s, depending on the release of the library
FirstWaits == {1, 2}

WaitExponential(first, n) == first * 2 ^ (n - 1)

\* stop_after_delay(60), evaluated when an attempt has failed
StopAfterDelay_Never(elapsed) == FALSE

StopAfterDelay(elapsed) == elapsed >= RetryDeadline

\* one attempt that takes d seconds and its consequence: the result is
\* returned, the last failure is raised wrapped in RetryError, or the call
\* sleeps and goes on to the next attempt
RetryStep(r, d, ok) ==
    LET elapsed == r.now + d IN
    IF ok
    THEN [r EXCEPT !.status = "returned", !.elapsed = elapsed, !.now = elapsed,
                   !.outcome = "ok", !.result = "boot log"]
    ELSE IF StopAfterDelay(elapsed)
    THEN [r EXCEPT !.status = "raised", !.elapsed = elapsed, !.now = elapsed,
                   !.outcome = "failed",
                   !.error = "RetryError: UnexpectedExit: az vm boot-diagnostics"]
    ELSE [r EXCEPT !.elapsed = elapsed, !.outcome = "failed",
                   !.wait = WaitExponential(r.first, r.attempt),
                   !.now = elapsed + WaitExponential(r.first, r.attempt),
                   !.attempt = r.attempt + 1]

\* a test calls n.get_boot_diagnostics()
StartBootDiagnostics(first) ==
    /\ retry.status = "idle"
    /\ retry' = [NoRetry EXCEPT !.status = "running", !.first = first,
                                !.attempt = 1]
    /\ UNCHANGED <<keep_vms, worldVars, fixtureVars, nodeVars, keyPair, call>>

\* self.local(...) is attempted once more
FetchAttempt(d, ok) ==
    /\ retry.status = "running"
    /\ retry.attempt <= MaxAttempts
    /\ retry' = RetryStep(retry, d, ok)
    /\ UNCHANGED <<keep_vms, worldVars, fixtureVars, nodeVars, keyPair, call>>

RetryNext ==
    \/ \E first \in FirstWaits : StartBootDiagnostics(first)
    \/ \E d \in 0..MaxFetchSecs, ok \in BOOLEAN : FetchAttempt(d, ok)

\* the call runs in the test's thread and every fetch ends, by the command
\* timeout at the latest: a pending step is taken
RetrySpec == Init /\ [][RetryNext]_vars /\ WF_vars(RetryNext)

(***************************************************************************)
(* The cloud helpers called on their own, against any state of the cloud.  *)
(***************************************************************************)
\* the deployment names the helpers are called with
HelperNames == {NewName(1), NewName(2)}

CallCheckAzCli(az) ==
    /\ \E r \in {check_az_cli(az)} :
          call' = [fn |-> "check_az_cli", args |-> <<az>>, error |-> r.error,
                   result |-> "", cmds |-> r.cmds]
    /\ UNCHANGED <<keep_vms, worldVars, fixtureVars, nodeVars, keyPair, retry>>

CallCreateBootStorage(location, fail) ==
    /\ \E r \in {create_boot_storage(location, bootGroup, bootAccount, fail)} :
          /\ call' = [fn |-> "create_boot_storage",
                      args |-> <<location, fail, bootGroup, bootAccount>>,
                      error |-> r.error, result |-> r.account, cmds |-> r.cmds]
          /\ bootGroup' = r.bootGroup
          /\ bootAccount' = r.bootAccount
    /\ UNCHANGED <<keep_vms, cache, rgExists, deletedGroups, uuidCount,
                   fixtureVars, nodeVars, keyPair, retry>>

CallDeployVm(name, kwargs, az, fail) ==
    /\ \E r \in {deploy_vm(name, kwargs, az, fail, rgExists, bootGroup,
                           bootAccount)} :
          /\ call' = [fn |-> "deploy_vm", args |-> <<name, kwargs, az, fail>>,
                      error |-> r.error, result |-> r.host, cmds |-> r.cmds]
          /\ rgExists' = r.rgExists
          /\ bootGroup' = r.bootGroup
          /\ bootAccount' = r.bootAccount
    /\ UNCHANGED <<keep_vms, cache, deletedGroups, uuidCount, fixtureVars,
                   nodeVars, keyPair, retry>>

CallDeleteVm(name, outcome) ==
    /\ \E r \in {delete_vm(name, outcome, rgExists)} :
          /\ call' = [fn |-> "delete_vm",
                      args |-> <<name, outcome, name \in rgExists>>,
                      error |-> r.error, result |-> "", cmds |-> r.cmds]
          /\ rgExists' = r.rgExists
          /\ deletedGroups' = deletedGroups \cup r.deleted
    /\ UNCHANGED <<keep_vms, cache, bootGroup, bootAccount, uuidCount,
                   fixtureVars, nodeVars, keyPair, retry>>

HelperNext ==
    \/ \E az \in AzEnv : CallCheckAzCli(az)
    \/ \E fail \in FailPoints : CallCreateBootStorage("westus2", fail)
    \/ \E name \in HelperNames, az \in AzEnv, fail \in FailPoints :
          CallDeployVm(name, <<>>, az, fail)
    \/ \E name \in HelperNames, outcome \in DeleteOutcomes :
          CallDeleteVm(name, outcome)

HelperSpec == Init /\ [][HelperNext]_vars

TypeOK ==
    /\ keep_vms \in BOOLEAN
    /\ pc \in {"idle", "yielded", "teardown", "finished"}
    /\ inv.path \in {"", "deploy", "connect", "local"}
    /\ inv.session \in {"none", "open", "closed"}
    /\ uuidCount \in 0..MaxUuid

(***************************************************************************)
(* Properties.                                                             *)
(***************************************************************************)
\* positions in `calls` of the calls of one kind
CallsOf(kind) == {i \in 1..Len(calls) : calls[i][1] = kind}
CallsOfNext(kind) == {i \in 1..Len(calls') : calls'[i][1] = kind}

\* the parameters a marker declares: its entries with a non-empty value
Declared(kwargs) == {kwargs[i] : i \in {j \in 1..Len(kwargs) : kwargs[j][2] # ""}}

\* C1: two deploy markers declaring the same parameters, in any order, get
\* the same cache key, and two markers that differ in a declared parameter
\* value get different keys.
C1_KeyCanonical ==
    keyPair # NoKeys =>
        /\ Declared(keyPair.a) = Declared(keyPair.b) => keyPair.keyA = keyPair.keyB
        /\ Declared(keyPair.a) # Declared(keyPair.b) => keyPair.keyA # keyPair.keyB

\* the clean-up of a provision-or-reuse invocation has run without retention
TornDownNoRetention ==
    /\ pc = "finished"
    /\ inv.path = "deploy"
    /\ inv.error = ""
    /\ ~keep_vms

\* C2: after the teardown of a provision-or-reuse invocation with retention
\* disabled, the cache holds no usable descriptor for the key and delete_vm
\* was called exactly once, for the deployment's name.
C2_TeardownClearsCache ==
    TornDownNoRetention =>
        /\ ~Truthy(CacheGet(cache, inv.key))
        /\ Cardinality(CallsOf("delete_vm")) = 1
        /\ \A i \in CallsOf("delete_vm") : calls[i][2] = inv.name

\* C3: a destroy call that fails during teardown is not raised: the
\* teardown ends without an error.
C3_TeardownErrorNotRaised ==
    (pc = "finished" /\ CallsOf("delete_vm") # {}) => inv.teardownError = ""

\* the step of the fixture from its call to its yield or its exception
IsSetupStep == pc = "idle" /\ pc' \in {"yielded", "finished"}

\* C4: on a cache hit for the key of the deploy marker the fixture calls no
\* deploy_vm, runs no cloud command, and yields a Node whose name and host
\* are those of the cached descriptor.
C4_HitReusesDescriptor ==
    [][(/\ IsSetupStep
        /\ inv'.intent.deploy # None
        /\ Truthy(CacheGet(cache, CacheKey(inv'.intent.deploy[1]))))
       => LET d == CacheGet(cache, CacheKey(inv'.intent.deploy[1]))[1] IN
          /\ pc' = "yielded"
          /\ CallsOfNext("deploy_vm") = {}
          /\ CallsOfNext("local.run") = {}
          /\ inv'.name = d.name
          /\ inv'.host = d.host
          /\ inv'.data = d
          /\ UNCHANGED worldVars]_vars

C4_Witness == pc = "yielded" /\ inv.hit /\ inv.name = "pytest-1"

\* C5: on a cache miss the fixture calls deploy_vm exactly once; when the
\* deployment succeeds it stores the descriptor, with name and host merged
\* in, under the key, and until a teardown clears it a lookup of the key
\* returns that descriptor.
C5_MissDeploysOnceAndStores ==
    /\ [][(/\ IsSetupStep
           /\ inv'.intent.deploy # None
           /\ ~Truthy(CacheGet(cache, CacheKey(inv'.intent.deploy[1]))))
          => /\ Cardinality(CallsOfNext("deploy_vm")) = 1
             /\ pc' = "yielded" =>
                  /\ inv'.key = CacheKey(inv'.intent.deploy[1])
                  /\ Truthy(CacheGet(cache', inv'.key))
                  /\ CacheGet(cache', inv'.key) = Some(inv'.data)
                  /\ inv'.data.name = inv'.name
                  /\ inv'.data.host = inv'.host
                  /\ inv'.data.publicIpAddress = inv'.host
                  /\ inv'.name \in rgExists'
                  /\ CallsOfNext("cache.set") # {}]_vars
    /\ []((pc \in {"yielded", "teardown"} /\ inv.path = "deploy")
            => CacheGet(cache, inv.key) = Some(inv.data))

C5_Witness ==
    /\ pc = "teardown"
    /\ inv.path = "deploy"
    /\ ~inv.hit
    /\ CacheGet(cache, inv.key) = Some(inv.data)

\* C6: with retention enabled the teardown of a provision-or-reuse
\* invocation issues no destroy call and leaves the cache and the cloud as
\* they were, so the cache still returns the descriptor for the key.
C6_RetentionKeepsDescriptor ==
    /\ [][(pc = "teardown" /\ pc' = "finished" /\ keep_vms)
            => UNCHANGED worldVars]_vars
    /\ []((pc = "finished" /\ inv.path = "deploy" /\ inv.error = "" /\ keep_vms)
            => /\ CallsOf("delete_vm") = {}
               /\ inv.teardownError = ""
               /\ Truthy(CacheGet(cache, inv.key))
               /\ CacheGet(cache, inv.key) = Some(inv.data))

C6_Witness ==
    /\ pc = "finished"
    /\ inv.path = "deploy"
    /\ inv.error = ""
    /\ keep_vms
    /\ inv.hit

\* C7: no provision-or-reuse invocation gets a cache hit on a descriptor
\* whose resource group an earlier teardown deleted.
C7_NoHitOnDeletedGroup ==
    (pc = "yielded" /\ inv.hit) => inv.name \notin deletedGroups

ConnectOnly == inv.intent.deploy = None /\ inv.intent.connect # None

\* C8: a connect-only invocation with host h yields a Node named
\* "pre-deployed:h" with host h and an empty descriptor, and from setup to
\* the end of teardown it issues no provisioning call, no destroy call, no
\* cloud command and no cache read or write.
C8_ConnectOnly ==
    /\ [](ConnectOnly =>
            /\ inv.error = ""
            /\ inv.name = "pre-deployed:" \o inv.intent.connect[1]
            /\ inv.host = inv.intent.connect[1]
            /\ inv.data = EmptyDict
            /\ \A i \in 1..Len(calls) :
                  calls[i][1] \in {"Node.__enter__", "Node.__exit__"})
    /\ [][(ConnectOnly \/ (IsSetupStep /\ ConnectOnly'))
            => UNCHANGED worldVars]_vars

C8_Witness ==
    /\ pc = "finished"
    /\ ConnectOnly
    /\ ~keep_vms
    /\ inv.name = "pre-deployed:203.0.113.5"
    /\ cache # EmptyDict

NoMarker == inv.intent.deploy = None /\ inv.intent.connect = None

\* C9: an invocation without a deploy or connect marker yields a Node with
\* name "localhost" and host "localhost", and from setup to the end of
\* teardown it issues no provisioning call, no destroy call and no cloud
\* command.
C9_Local ==
    /\ []((NoMarker /\ pc # "idle") =>
            /\ inv.error = ""
            /\ inv.name = "localhost"
            /\ inv.host = "localhost"
            /\ \A i \in 1..Len(calls) :
                  calls[i][1] \in {"Node.__enter__", "Node.__exit__"})
    /\ [][((NoMarker /\ pc # "idle") \/ (IsSetupStep /\ NoMarker'))
            => UNCHANGED <<rgExists, deletedGroups, bootGroup, bootAccount,
                           uuidCount>>]_vars

C9_Witness ==
    /\ pc = "finished"
    /\ NoMarker
    /\ ~keep_vms
    /\ inv.name = "localhost"
    /\ rgExists # {}

\* C10: a command run with Node.local gets no environment override, so it
\* never receives the PATH override that a command run on the same Node
\* with Node.run receives.
C10_LocalEnvIsolated ==
    /\ \A l \in localRuns :
          /\ l.overrides = {}
          /\ l.env = OsEnviron
          /\ l.env \cap RemoteEnv = {}
    /\ \A r \in remoteRuns :
          /\ r.overrides = RemoteEnv
          /\ RemoteEnv \subseteq r.env
          /\ \A l \in localRuns : l.overrides # r.overrides

C10_Witness == localRuns # {} /\ remoteRuns # {}

\* C11: get_boot_diagnostics retries a failed fetch with exponentially
\* growing sleeps; a fetch that succeeds returns its result whatever the
\* number of failures before it, a failure seen once 60 seconds have
\* elapsed ends the call with that failure, and every call ends.
C11_RetryUntilDeadline ==
    /\ [][(retry.status = "running" /\ retry' # retry) =>
            /\ retry'.outcome = "ok" =>
                 /\ retry'.status = "returned"
                 /\ retry'.result = "boot log"
                 /\ retry'.error = ""
            /\ (retry'.outcome = "failed" /\ retry'.elapsed < RetryDeadline) =>
                 /\ retry'.status = "running"
                 /\ retry'.attempt = retry.attempt + 1
                 /\ retry'.wait >= 1
                 /\ retry.attempt > 1 => retry'.wait = 2 * retry.wait
                 /\ retry'.now = retry'.elapsed + retry'.wait
            /\ (retry'.outcome = "failed" /\ retry'.elapsed >= RetryDeadline) =>
                 /\ retry'.status = "raised"
                 /\ retry'.error # ""
                 /\ retry'.result = ""]_vars
    /\ [](retry.status = "running" => retry.attempt <= MaxAttempts - 1)
    /\ (retry.status = "running") ~> (retry.status \in {"returned", "raised"})

C11_Witness ==
    /\ retry.status = "returned"
    /\ retry.attempt = 3
    /\ retry.elapsed < RetryDeadline
    /\ retry.result = "boot log"

\* what an invocation did of each of the three paths
TookDeploy == CallsOf("cache.get") # {}
TookConnect ==
    /\ inv.intent.connect # None
    /\ inv.name = "pre-deployed:" \o inv.intent.connect[1]
TookLocal == inv.name = "localhost" \/ inv.host = "localhost"

PathsTaken ==
    (IF TookDeploy THEN {"deploy"} ELSE {})
        \cup (IF TookConnect THEN {"connect"} ELSE {})
        \cup (IF TookLocal THEN {"local"} ELSE {})

\* C12: every fixture invocation takes exactly one of the three paths,
\* whatever markers the test declares: provision-or-reuse when the deploy
\* marker is present (also next to a connect marker), else connect-only
\* when the connect marker is present, else local.
C12_ExactlyOnePath ==
    pc # "idle" =>
        /\ Cardinality(PathsTaken) = 1
        /\ PathsTaken = {inv.path}
        /\ inv.path = (IF inv.intent.deploy # None THEN "deploy"
                       ELSE IF inv.intent.connect # None THEN "connect"
                       ELSE "local")

C12_Witness ==
    /\ pc = "yielded"
    /\ inv.intent.deploy # None
    /\ inv.intent.connect # None
    /\ PathsTaken = {"deploy"}

\* C13: deleting the resource group of a name whose group does not exist,
\* such as a second delete_vm for the same name, does not raise.
C13_DeleteIdempotent ==
    (call.fn = "delete_vm" /\ ~call.args[3]) => call.error = ""

\* C14: check_az_cli succeeds only when the CLI is installed, the operator
\* is logged in and a default subscription is selected, and in each of the
\* three other cases it fails with the message that names the missing
\* precondition.
C14_CheckNamesPrecondition ==
    call.fn = "check_az_cli" =>
        /\ call.error = "" <=> call.args[1] = "ok"
        /\ call.args[1] = "not_installed" =>
              call.error = "AssertionError: Please install the az CLI!"
        /\ call.args[1] = "not_logged_in" =>
              call.error = "AssertionError: Please az login!"
        /\ call.args[1] = "no_default" =>
              call.error = "AssertionError: Please az account set -s <subscription>!"

\* the commands of a helper call that create a resource of the given kind
Creates(cmds, what) ==
    {i \in 1..Len(cmds) :
        \E location \in {"westus2"} :
            cmds[i] \in
               {Cmd("az " \o what \o " create -n pytest-lisa --location " \o location),
                Cmd("az " \o what \o " create -g pytest-lisa -n pytestbootdiag")}}

\* C15: create_boot_storage is idempotent: from every state of the shared
\* resource group and storage account a call whose commands succeed ends
\* with both existing and returns the same account identifier, issues a
\* create only for a resource that did not exist, and a call that follows
\* a successful one issues no create at all.
C15_BootStorageIdempotent ==
    /\ [](call.fn = "create_boot_storage" /\ call.error = "" =>
            /\ call.result = "pytestbootdiag"
            /\ bootGroup /\ bootAccount
            /\ Creates(call.cmds, "group") # {} <=> ~call.args[3]
            /\ Creates(call.cmds, "storage account") # {} <=> ~call.args[4]
            /\ Cardinality(Creates(call.cmds, "group")) <= 1
            /\ Cardinality(Creates(call.cmds, "storage account")) <= 1)
    /\ [][(/\ call.fn = "create_boot_storage" /\ call.error = ""
           /\ call'.fn = "create_boot_storage" /\ call' # call) =>
             /\ call'.error = ""
             /\ call'.result = call.result
             /\ Creates(call'.cmds, "group") = {}
             /\ Creates(call'.cmds, "storage account") = {}]_vars

C15_Witness ==
    /\ call.fn = "create_boot_storage" /\ call.error = ""
    /\ call.args[3] /\ call.args[4]
    /\ call.result = "pytestbootdiag"
    /\ Len(call.cmds) = 2

\* C16: the Node's session is closed at the end of the fixture's scope on
\* every exit path: after a test that passed, after a test that raised, and
\* whether or not the clean-up that follows succeeds; no invocation ends
\* with its Node still connected, and the session is open only from the
\* yield until the generator is resumed.
C16_SessionClosed ==
    /\ inv.session = "open" <=> pc \in {"yielded", "teardown"}
    /\ pc = "finished" /\ inv.error = "" =>
          /\ inv.session = "closed"
          /\ inv.outcome \in {"passed", "failed"}
    /\ pc = "finished" =>
          /\ inv.session # "open"
          /\ Cardinality(CallsOf("Node.__exit__"))
                = Cardinality(CallsOf("Node.__enter__"))
          /\ \A i \in CallsOf("Node.__enter__") :
                \E j \in CallsOf("Node.__exit__") :
                   j > i /\ calls[j][2] = calls[i][2]

C16_Witness ==
    /\ pc = "finished"
    /\ inv.outcome = "failed"
    /\ inv.teardownError # ""
    /\ inv.session = "closed"
    /\ CallsOf("Node.__exit__") # {}

\* the step of deploy_vm a command belongs to: 1 the access check, 2 the
\* boot-storage setup, 3 the creation of the VM's resource group, 4 the
\* creation of the VM; 0 for any other command
StepOf(cmd, name, kwargs) ==
    LET image == KwGet(kwargs, "vm_image", "UbuntuLTS")
        size == KwGet(kwargs, "vm_size", "Standard_DS1_v2")
    IN  IF cmd \in {Cmd("az --version"), Cmd("az account show")} THEN 1
        ELSE IF cmd \in {Cmd("az group exists -n pytest-lisa"),
                         Cmd("az group create -n pytest-lisa --location westus2"),
                         Cmd("az storage account show -g pytest-lisa -n pytestbootdiag"),
                         Cmd("az storage account create -g pytest-lisa -n pytestbootdiag")}
        THEN 2
        ELSE IF cmd = Cmd("az group create -n " \o name \o "-rg --location westus2")
        THEN 3
        ELSE IF cmd = Cmd("az vm create -g " \o name \o "-rg -n " \o name
                          \o " --image " \o image \o " --size " \o size
                          \o " --boot-diagnostics-storage pytestbootdiag"
                          \o " --generate-ssh-keys")
        THEN 4
        ELSE 0

\* the command that exits non-zero is one the call issues
Fails(az, fail, bg, ba) ==
    \/ az # "ok"
    \/ fail \in {"group create", "vm create"}
    \/ fail = "boot group create" /\ ~bg
    \/ fail = "storage account create" /\ ~ba

\* the step a raised error belongs to
FailedStep(az, fail, bg, ba) ==
    IF az # "ok" THEN 1
    ELSE IF fail = "boot group create" /\ ~bg THEN 2
    ELSE IF fail = "storage account create" /\ ~ba THEN 2
    ELSE IF fail = "group create" THEN 3
    ELSE 4

\* C17: provisioning fails fast and is not swallowed: deploy_vm issues its
\* steps in the order access check, boot-storage setup, resource-group
\* create, VM create; when a step exits non-zero no later step is issued,
\* the fixture ends with that error before the test runs, no cache entry is
\* written for the key and no Node is yielded.
C17_ProvisionFailsFast ==
    [][\A az \in AzEnv, fail \in FailPoints :
         (/\ pc = "idle" /\ CallsOfNext("deploy_vm") # {}
          /\ NodeSetup(inv'.intent, az, fail)) =>
            LET kwargs == inv'.intent.deploy[1]
                runs == CallsOfNext("local.run")
                step(i) == StepOf(calls'[i], inv'.name, kwargs)
                last == calls'[Len(calls')]
            IN  /\ \A i \in runs : step(i) \in 1..4
                /\ \A i, j \in runs : i < j => step(i) <= step(j)
                /\ \A i \in runs : \A d \in CallsOfNext("deploy_vm") : d < i
                /\ inv'.error # "" <=> Fails(az, fail, bootGroup, bootAccount)
                /\ inv'.error # "" =>
                      /\ pc' = "finished"
                      /\ inv'.session = "none"
                      /\ cache' = cache
                      /\ CallsOfNext("cache.set") = {}
                      /\ CallsOfNext("Node.__enter__") = {}
                      /\ Len(calls') \in runs
                      /\ StepOf(last, inv'.name, kwargs)
                            = FailedStep(az, fail, bootGroup, bootAccount)
                /\ inv'.error = "" =>
                      /\ {step(i) : i \in runs} = 1..4
                      /\ pc' = "yielded"]_vars

C17_Witness ==
    /\ pc = "finished"
    /\ inv.error = "UnexpectedExit: az group create"
    /\ CallsOf("deploy_vm") # {}
    /\ Len(calls) > 0
    /\ calls[Len(calls)] = Cmd("az group create -n " \o inv.name
                               \o "-rg --location westus2")
    /\ CacheGet(cache, inv.key) = None

\* C18: for every intent and either value of the retention option, when no
\* cloud command fails the fixture's teardown completes without raising; in
\* particular the teardown of a connect-only or local invocation with
\* retention disabled finishes cleanly.
C18_TeardownCompletes ==
    pc = "finished" =>
        inv.teardownError \in {"", "UnexpectedExit: az group delete"}

\* C19: building the remote-session configuration leaves the module-level
\* default configuration unchanged: after any number of invocations its run
\* section holds only echo, in_stream and timeout and has no env entry.
C19_DefaultConfigUnchanged ==
    /\ DOMAIN config.run = {"echo", "in_stream", "timeout"}
    /\ config = DefaultConfig

\* C20: in every provision-or-reuse invocation with retention disabled the
\* Node's session is closed before delete_vm is issued, and the cache entry
\* is cleared only after delete_vm has returned successfully.
C20_CloseDeleteClear ==
    /\ [](\A d \in CallsOf("delete_vm") :
             /\ \E x \in CallsOf("Node.__exit__") : x < d
             /\ \A e \in CallsOf("Node.__enter__") :
                   \E x \in CallsOf("Node.__exit__") : e < x /\ x < d
             /\ \A c \in CallsOf("cache.set") :
                   c > d => (pc = "finished" /\ inv.teardownError = ""
                             /\ c = Len(calls)))
    /\ [][pc = "teardown" =>
            /\ (inv.path = "deploy" /\ ~keep_vms) =>
                  /\ CallsOfNext("delete_vm") # {}
                  /\ inv'.teardownError = "" =>
                        /\ CacheGet(cache', inv.key) = None
                        /\ calls'[Len(calls')] = <<"cache.set", inv.key>>
            /\ cache' # cache =>
                  /\ inv'.teardownError = ""
                  /\ CallsOfNext("delete_vm") # {}
            /\ inv'.teardownError # "" => cache' = cache]_vars

C20_Witness ==
    /\ pc = "finished"
    /\ inv.path = "deploy"
    /\ ~keep_vms
    /\ inv.teardownError = ""
    /\ CallsOf("delete_vm") # {}
    /\ calls[Len(calls)] = <<"cache.set", inv.key>>
    /\ CacheGet(cache, inv.key) = None

====
